---- MODULE Spec2Model ----
(***************************************************************************)
(* Telecom customer churn & revenue analysis.                              *)
(*                                                                         *)
(* Three programs share one CSV of customer records:                       *)
(*   - TelecomChurnAnalyzer   (src/src/advanced_analysis.py): in memory    *)
(*   - TelecomPostgresLoader  (src/setup_postgresql.py): CSV -> table,     *)
(*     views                                                               *)
(*   - TelecomPostgresAnalyzer (src/run_postgresql_analysis.py): queries   *)
(*                                                                         *)
(* Numbers.  Money is held in exact fixed point, in mills (1/1000 of a     *)
(* currency unit), so that rounding to 2 decimals (to a multiple of 10     *)
(* mills) is an operation that changes values.  Tenure is a whole number   *)
(* of months.  Percentages are held in hundredths of a percent where they  *)
(* are rounded to 2 decimals.  Floating point error is not represented.    *)
(***************************************************************************)
EXTENDS Integers, Sequences, FiniteSets, TLC

VARIABLES
    csv,                \* the rows pd.read_csv returns for the data file
    df,                 \* TelecomChurnAnalyzer.df (rows), in memory
    columns,            \* derived columns present in TelecomChurnAnalyzer.df
    results,            \* what the in-memory analyses returned, by method
    clean_passes,       \* frames clean_data returned, in call order
    telecom_customers,  \* the SQL table telecom_customers (NoTable or rows)
    views,              \* the SQL views that exist, by name
    loader,             \* what each loader step returned / printed
    sql,                \* what each analyzer query returned
    pc                  \* where main() of the loader and run_complete_analysis
                        \* of the SQL analyzer stand

\* how many times clean_data is applied to a frame
MaxCleanPasses == 2

vars == <<csv, df, columns, results, clean_passes, telecom_customers, views,
          loader, sql, pc>>

----------------------------------------------------------------------------
(* Cells of a pandas column.  read_csv types a column of integers int64, a *)
(* column of decimals float64, and leaves a column holding any text that   *)
(* is not a number as object: text cells, and NaN for empty fields.        *)

NaN == [k |-> "nan"]
StrCell(s) == [k |-> "str", s |-> s]
IntCell(n) == [k |-> "int", v |-> n]
FltCell(m) == [k |-> "flt", v |-> m]

\* SQL NULL, and the error a method raises instead of returning a value
NULL == [k |-> "null"]
Raised(what) == [k |-> "raised", what |-> what]
IsRaised(x) == x.k = "raised"

IsNumber(c) == c.k \in {"int", "flt"}

\* the value of a numeric cell in mills
Mills(c) == IF c.k = "int" THEN c.v * 1000 ELSE c.v

----------------------------------------------------------------------------
(* pd.to_numeric on text: pandas parses with its C routine (leading and    *)
(* trailing blanks skipped, digits, at most one decimal point, at least    *)
(* one digit, nothing left over).  Signs and exponents are not in the      *)
(* alphabet used here.                                                     *)

DigitChars == {"0", "1", "2", "3", "4", "5", "6", "7", "8", "9"}

DigitVal(c) ==
    CASE c = "0" -> 0 [] c = "1" -> 1 [] c = "2" -> 2 [] c = "3" -> 3
      [] c = "4" -> 4 [] c = "5" -> 5 [] c = "6" -> 6 [] c = "7" -> 7
      [] c = "8" -> 8 [] c = "9" -> 9

RECURSIVE LStrip(_)
LStrip(s) == IF s # <<>> /\ Head(s) = " " THEN LStrip(Tail(s)) ELSE s

RECURSIVE RStrip(_)
RStrip(s) ==
    IF s # <<>> /\ s[Len(s)] = " " THEN RStrip(SubSeq(s, 1, Len(s) - 1)) ELSE s

\* the digits of s read as a whole number
RECURSIVE WholeVal(_)
WholeVal(s) ==
    IF s = <<>> THEN 0
    ELSE WholeVal(SubSeq(s, 1, Len(s) - 1)) * 10 + DigitVal(s[Len(s)])

\* the digits after the decimal point, in mills (a 4th digit and later are
\* below the resolution of the model)
FracMills(s) ==
    (IF Len(s) >= 1 THEN DigitVal(s[1]) * 100 ELSE 0)
    + (IF Len(s) >= 2 THEN DigitVal(s[2]) * 10 ELSE 0)
    + (IF Len(s) >= 3 THEN DigitVal(s[3]) ELSE 0)

PointAt(s) == IF \E i \in 1..Len(s) : s[i] = "."
              THEN CHOOSE i \in 1..Len(s) : s[i] = "." /\ \A j \in 1..(i - 1) : s[j] # "."
              ELSE 0

\* the number a text denotes, or NaN when it is not a number
ParseFloat(text) ==
    LET s == RStrip(LStrip(text))
        p == PointAt(s)
        whole == IF p = 0 THEN s ELSE SubSeq(s, 1, p - 1)
        frac == IF p = 0 THEN <<>> ELSE SubSeq(s, p + 1, Len(s))
        wellFormed == /\ \A i \in 1..Len(whole) : whole[i] \in DigitChars
                      /\ \A i \in 1..Len(frac) : frac[i] \in DigitChars
                      /\ Len(whole) + Len(frac) >= 1
    IN IF wellFormed THEN FltCell(WholeVal(whole) * 1000 + FracMills(frac)) ELSE NaN

\* pd.to_numeric(column, errors='coerce'), cell by cell
to_numeric_bug(c) == IF c.k = "str" THEN ParseFloat(c.s) ELSE NaN
to_numeric(c) ==
    CASE c.k = "str" -> ParseFloat(c.s)
      [] c.k = "int" -> c
      [] c.k = "flt" -> c
      [] c.k = "nan" -> NaN

\* column.fillna(value, inplace=True), cell by cell.  On the pandas the
\* scripts were written for (before copy-on-write became the default) the
\* in-place fill of df['TotalCharges'] reaches the frame.
fillna_bug(c, value) == c
fillna(c, value) == IF c.k = "nan" THEN FltCell(value) ELSE c

\* column.astype(int) / column.astype(float), cell by cell; a cell that
\* cannot be converted makes astype raise
CanAsInt(c) == c.k \in {"int", "flt"}
astype_int(c) == IF c.k = "flt" THEN IntCell(c.v \div 1000) ELSE c

CanAsFloat(c) == c.k \in {"int", "flt", "nan"} \/ (c.k = "str" /\ ParseFloat(c.s) # NaN)
astype_float(c) ==
    CASE c.k = "int" -> FltCell(c.v * 1000)
      [] c.k = "str" -> ParseFloat(c.s)
      [] OTHER -> c

----------------------------------------------------------------------------
(* Comparisons of a numeric cell with a whole number.  A comparison with   *)
(* NaN (Python) or NULL (SQL; to_sql stores NaN as NULL) is not true.      *)

LtN(c, n) == IsNumber(c) /\ Mills(c) < n * 1000
GeN(c, n) == IsNumber(c) /\ Mills(c) >= n * 1000
LeN(c, n) == IsNumber(c) /\ Mills(c) <= n * 1000
GtN(c, n) == IsNumber(c) /\ Mills(c) > n * 1000

\* the sum of a sequence of integers
RECURSIVE SeqSum(_)
SeqSum(s) == IF s = <<>> THEN 0 ELSE Head(s) + SeqSum(Tail(s))

\* the number of rows of a frame that satisfy Test
CountIf(rows, Test(_)) == Cardinality({i \in 1..Len(rows) : Test(rows[i])})

\* num/den rounded to a whole number: ties to even (numpy's round) and ties
\* away from zero (PostgreSQL's ROUND on numeric); num >= 0, den > 0
RoundHalfEven(num, den) ==
    LET q == num \div den
        r == num % den
    IN IF 2 * r < den THEN q
       ELSE IF 2 * r > den THEN q + 1
       ELSE IF q % 2 = 0 THEN q ELSE q + 1

RoundHalfAway(num, den) ==
    LET q == num \div den
        r == num % den
    IN IF 2 * r < den THEN q ELSE q + 1

----------------------------------------------------------------------------
(* The cleaner.                                                            *)

\* TelecomPostgresLoader.clean_data: the frame it returns, or the error
\* astype raises on a cell it cannot convert
clean_data(frame) ==
    IF \E i \in 1..Len(frame) :
           \/ ~CanAsInt(frame[i].SeniorCitizen)
           \/ ~CanAsInt(frame[i].tenure)
           \/ ~CanAsFloat(frame[i].MonthlyCharges)
    THEN Raised("ValueError")
    ELSE [k |-> "frame",
          rows |-> [i \in 1..Len(frame) |->
                      [frame[i] EXCEPT
                         !.TotalCharges = astype_float(fillna(to_numeric(@), 0)),
                         !.SeniorCitizen = astype_int(@),
                         !.tenure = astype_int(@),
                         !.MonthlyCharges = astype_float(@)]]]

\* TelecomChurnAnalyzer.load_data: the frame stored in self.df
load_data_frame(frame) ==
    [i \in 1..Len(frame) |->
       [frame[i] EXCEPT !.TotalCharges = fillna(to_numeric(@), 0)]]

----------------------------------------------------------------------------
(* The segmenter: in memory (create_segments) and in SQL (the CASE         *)
(* expressions of the customer_segments view).                             *)

create_segments_no_else(row) ==
    IF row.Contract = "Month-to-month" /\ LtN(row.tenure, 12)
    THEN "High Risk - New Month-to-Month"
    ELSE IF row.Contract = "Month-to-month" /\ GeN(row.tenure, 12)
    THEN "Medium Risk - Established Month-to-Month"
    ELSE IF row.Contract = "One year" /\ LtN(row.tenure, 6)
    THEN "Medium Risk - New Annual"
    ELSE IF row.Contract = "Two year"
    THEN "Low Risk - Long-term"
    ELSE "NaN"

create_segments_ge6(row) ==
    IF row.Contract = "Month-to-month" /\ LtN(row.tenure, 12)
    THEN "High Risk - New Month-to-Month"
    ELSE IF row.Contract = "Month-to-month" /\ GeN(row.tenure, 12)
    THEN "Medium Risk - Established Month-to-Month"
    ELSE IF row.Contract = "One year" /\ LeN(row.tenure, 6)
    THEN "Medium Risk - New Annual"
    ELSE IF row.Contract = "Two year"
    THEN "Low Risk - Long-term"
    ELSE "Stable - Established Annual"

create_segments(row) ==
    IF row.Contract = "Month-to-month" /\ LtN(row.tenure, 12)
    THEN "High Risk - New Month-to-Month"
    ELSE IF row.Contract = "Month-to-month" /\ GeN(row.tenure, 12)
    THEN "Medium Risk - Established Month-to-Month"
    ELSE IF row.Contract = "One year" /\ LtN(row.tenure, 6)
    THEN "Medium Risk - New Annual"
    ELSE IF row.Contract = "Two year"
    THEN "Low Risk - Long-term"
    ELSE "Stable - Established Annual"

customer_segment_case_swapped(row) ==
    CASE row.Contract = "Month-to-month" /\ LtN(row.tenure, 12)
           -> "High Risk - New Month-to-Month"
      [] row.Contract = "Month-to-month" /\ GeN(row.tenure, 12)
           -> "Medium Risk - Established Month-to-Month"
      [] row.Contract = "One year" /\ LtN(row.tenure, 6)
           -> "Medium Risk - New Annual"
      [] row.Contract = "One year" /\ ~LtN(row.tenure, 6)
           -> "Low Risk - Long-term"
      [] OTHER -> "Stable - Established Annual"

\* CASE ... END AS customer_segment; the WHEN conditions exclude each other,
\* so first-match order does not show
customer_segment_case(row) ==
    CASE row.Contract = "Month-to-month" /\ LtN(row.tenure, 12)
           -> "High Risk - New Month-to-Month"
      [] row.Contract = "Month-to-month" /\ GeN(row.tenure, 12)
           -> "Medium Risk - Established Month-to-Month"
      [] row.Contract = "One year" /\ LtN(row.tenure, 6)
           -> "Medium Risk - New Annual"
      [] row.Contract = "Two year"
           -> "Low Risk - Long-term"
      [] OTHER -> "Stable - Established Annual"

churn_risk_case_12(row) ==
    IF row.Contract = "Month-to-month" /\ LtN(row.tenure, 12) THEN "High Risk"
    ELSE IF row.Contract = "Month-to-month" /\ GeN(row.tenure, 12) THEN "Medium Risk"
    ELSE IF row.Contract = "One year" /\ LtN(row.tenure, 6) THEN "Medium Risk"
    ELSE "Low Risk"

\* CASE ... END AS churn_risk, first match wins
churn_risk_case(row) ==
    IF row.Contract = "Month-to-month" /\ LtN(row.tenure, 12) THEN "High Risk"
    ELSE IF row.Contract = "Month-to-month" /\ LtN(row.tenure, 24) THEN "Medium Risk"
    ELSE IF row.Contract = "One year" /\ LtN(row.tenure, 6) THEN "Medium Risk"
    ELSE "Low Risk"

\* MonthlyCharges * tenure, in mills (tenure is a whole number of months
\* in every frame the analyses see)
charges_times_tenure(row) == Mills(row.MonthlyCharges) * row.tenure.v

\* CASE WHEN "TotalCharges" > 0 THEN "TotalCharges"
\*      ELSE "MonthlyCharges" * tenure END AS clv, in mills
clv_case_ge(row) ==
    IF GeN(row.TotalCharges, 0) THEN Mills(row.TotalCharges)
    ELSE charges_times_tenure(row)

clv_case(row) ==
    IF GtN(row.TotalCharges, 0) THEN Mills(row.TotalCharges)
    ELSE charges_times_tenure(row)

----------------------------------------------------------------------------
(* Values of the state.                                                    *)

NotRun == [k |-> "notrun"]          \* the method has not been called
None == [k |-> "None"]              \* Python's None
Returned(b) == [k |-> "returned", v |-> b]   \* the method returned b
NotLoaded == [k |-> "none"]         \* self.df = None
NoTable == [k |-> "absent"]         \* the relation does not exist
Frame(rows) == [k |-> "frame", rows |-> rows]
Table(rows) == [k |-> "table", rows |-> rows]

Churned(row) == row.Churn = "Yes"

\* n / d as numpy divides two integers: an exact ratio, and NaN for 0 / 0
\* (numpy warns and goes on; the scripts silence warnings)
np_divide(n, d) ==
    IF d # 0 THEN [k |-> "ratio", num |-> n, den |-> d]
    ELSE IF n = 0 THEN NaN ELSE [k |-> "inf"]

\* pandas groupby: the keys of the groups.  Rows whose key is missing are
\* dropped (dropna=True); NoLabel stands for a missing key.
NoLabel == "NaN"
GroupKeys(rows, Key(_)) == {Key(rows[i]) : i \in 1..Len(rows)} \ {NoLabel}
Group(rows, Key(_), key) == SelectSeq(rows, LAMBDA r : Key(r) = key)

ColumnSum(rows, Value(_)) == SeqSum([i \in 1..Len(rows) |-> Value(rows[i])])

\* Series.round(2) of a mean of mills: to a multiple of 10 mills
MeanRound2(total, n) == RoundHalfEven(total, n * 10) * 10

----------------------------------------------------------------------------
(* TelecomChurnAnalyzer (in memory).                                       *)

\* __init__ -> load_data
TelecomChurnAnalyzer_init ==
    /\ df = NotLoaded
    /\ df' = Frame(load_data_frame(csv))
    /\ UNCHANGED <<csv, columns, results, clean_passes, telecom_customers,
                   views, loader, sql, pc>>

\* the segment_analysis table of customer_segmentation: one row per
\* customer_segment, churn_rate in hundredths of a percent
segment_analysis(rows) ==
    [seg \in GroupKeys(rows, LAMBDA r : r.customer_segment) |->
        LET g == Group(rows, LAMBDA r : r.customer_segment, seg)
            n == Len(g)
            churned == CountIf(g, Churned)
        IN [customer_count |-> n,
            avg_monthly_charges |->
                MeanRound2(ColumnSum(g, LAMBDA r : Mills(r.MonthlyCharges)), n),
            avg_tenure |-> MeanRound2(ColumnSum(g, LAMBDA r : Mills(r.tenure)), n),
            avg_total_charges |->
                MeanRound2(ColumnSum(g, LAMBDA r : Mills(r.TotalCharges)), n),
            churned_customers |-> churned,
            churn_rate |-> RoundHalfEven(churned * 10000, n)]]

customer_segmentation ==
    /\ df # NotLoaded
    /\ LET rows == [i \in 1..Len(df.rows) |->
                      [customer_segment |-> create_segments(df.rows[i])]
                          @@ df.rows[i]]
       IN /\ df' = Frame(rows)
          /\ columns' = columns \cup {"customer_segment"}
          /\ results' = [results EXCEPT !.segmentation = segment_analysis(rows)]
    /\ UNCHANGED <<csv, clean_passes, telecom_customers, views, loader, sql, pc>>

\* Series.round(2) of a sum of mills
Round2(total) == RoundHalfEven(total, 10) * 10

\* the revenue_by_segment table of revenue_impact_analysis, from the churned
\* rows; money in mills
revenue_by_segment(churned_customers) ==
    [seg \in GroupKeys(churned_customers, LAMBDA r : r.customer_segment) |->
        LET g == Group(churned_customers, LAMBDA r : r.customer_segment, seg)
            monthly == Round2(ColumnSum(g, LAMBDA r : Mills(r.MonthlyCharges)))
        IN [churned_customers |-> Len(g),
            monthly_revenue_lost |-> monthly,
            lifetime_value_lost |-> Round2(ColumnSum(g, charges_times_tenure)),
            annual_revenue_lost |-> monthly * 12]]

revenue_impact_analysis_inplace ==
    /\ df # NotLoaded
    /\ LET churned_customers ==
               [i \in 1..Len(SelectSeq(df.rows, Churned)) |->
                   [estimated_lifetime_value |->
                        charges_times_tenure(SelectSeq(df.rows, Churned)[i])]
                       @@ SelectSeq(df.rows, Churned)[i]]
           monthly_revenue_lost ==
               ColumnSum(churned_customers, LAMBDA r : Mills(r.MonthlyCharges))
       IN /\ df' = Frame(churned_customers)
          /\ columns' = columns \cup {"estimated_lifetime_value"}
          /\ results' = [results EXCEPT !.revenue_impact =
                [monthly_revenue_lost |-> monthly_revenue_lost,
                 annual_revenue_lost |-> monthly_revenue_lost * 12,
                 lifetime_value_lost |->
                     ColumnSum(churned_customers, charges_times_tenure),
                 returned |->
                     IF "customer_segment" \in columns
                     THEN [k |-> "table",
                           rows |-> revenue_by_segment(churned_customers)]
                     ELSE Raised("KeyError")]]
    /\ UNCHANGED <<csv, clean_passes, telecom_customers, views, loader, sql, pc>>

\* revenue_impact_analysis prints the three overall figures, then groups the
\* churned rows by customer_segment: a KeyError when customer_segmentation
\* has not added that column
revenue_impact_analysis ==
    /\ df # NotLoaded
    /\ LET churned_customers == SelectSeq(df.rows, Churned)
           monthly_revenue_lost ==
               ColumnSum(churned_customers, LAMBDA r : Mills(r.MonthlyCharges))
       IN results' = [results EXCEPT !.revenue_impact =
             [monthly_revenue_lost |-> monthly_revenue_lost,
              annual_revenue_lost |-> monthly_revenue_lost * 12,
              lifetime_value_lost |->
                  ColumnSum(churned_customers, charges_times_tenure),
              returned |->
                  IF "customer_segment" \in columns
                  THEN [k |-> "table",
                        rows |-> revenue_by_segment(churned_customers)]
                  ELSE Raised("KeyError")]]
    /\ UNCHANGED <<csv, df, columns, clean_passes, telecom_customers, views,
                   loader, sql, pc>>

\* cohort_analysis: cohort_month = max(0, 72 - tenure), cut into the bins
\* (0,12], (12,24], ..., (60,72]; a value in no bin (0) gets no group
cohort_month(row) ==
    IF 72 - row.tenure.v > 0 THEN 72 - row.tenure.v ELSE 0

CohortLabels == {"0-12", "13-24", "25-36", "37-48", "49-60", "60+"}

cohort_group(month) ==
    IF month <= 0 THEN NoLabel
    ELSE IF month <= 12 THEN "0-12"
    ELSE IF month <= 24 THEN "13-24"
    ELSE IF month <= 36 THEN "25-36"
    ELSE IF month <= 48 THEN "37-48"
    ELSE IF month <= 60 THEN "49-60"
    ELSE IF month <= 72 THEN "60+"
    ELSE NoLabel

\* 1 - x for a ratio x; NaN stays NaN
one_minus(x) ==
    IF x.k = "ratio" THEN [k |-> "ratio", num |-> x.den - x.num, den |-> x.den]
    ELSE NaN

\* groupby(['cohort_group', 'tenure']): cohort_group is categorical, and the
\* pandas the script was written for (observed=False) gives a row to every
\* category and every tenure value of the frame, with or without members
cohort_table(rows) ==
    [key \in CohortLabels \X {rows[i].tenure : i \in 1..Len(rows)} |->
        LET g == SelectSeq(rows, LAMBDA r : r.cohort_group = key[1] /\ r.tenure = key[2])
            total_customers == Len(g)
            churned_customers == CountIf(g, Churned)
        IN [total_customers |-> total_customers,
            churned_customers |-> churned_customers,
            retention_rate |-> one_minus(np_divide(churned_customers, total_customers))]]

cohort_analysis ==
    /\ df # NotLoaded
    /\ LET rows == [i \in 1..Len(df.rows) |->
                      [cohort_month |-> cohort_month(df.rows[i]),
                       cohort_group |-> cohort_group(cohort_month(df.rows[i]))]
                          @@ df.rows[i]]
       IN /\ df' = Frame(rows)
          /\ columns' = columns \cup {"cohort_month", "cohort_group"}
          /\ results' = [results EXCEPT !.cohort = cohort_table(rows)]
    /\ UNCHANGED <<csv, clean_passes, telecom_customers, views, loader, sql, pc>>

\* (x == 'Yes').sum() / len(x) * 100 over the rows of a group or of the frame
churn_percent(rows) ==
    LET x == np_divide(CountIf(rows, Churned), Len(rows))
    IN IF x.k = "ratio" THEN [x EXCEPT !.num = @ * 100] ELSE x

\* pd.cut(tenure, bins=[0, 12, 24, 36, 72])
tenure_bin(row) ==
    IF LeN(row.tenure, 0) THEN NoLabel
    ELSE IF LeN(row.tenure, 12) THEN "(0, 12]"
    ELSE IF LeN(row.tenure, 24) THEN "(12, 24]"
    ELSE IF LeN(row.tenure, 36) THEN "(24, 36]"
    ELSE IF LeN(row.tenure, 72) THEN "(36, 72]"
    ELSE NoLabel

\* generate_insights_and_recommendations: the overall rate is printed, then
\* the rate by contract, by internet service and by tenure bin; idxmax of an
\* empty table raises ValueError, and when no row lies in a tenure bin idxmax
\* gives NaN, which is no key of the table (KeyError)
generate_insights_and_recommendations ==
    /\ df # NotLoaded
    /\ results' = [results EXCEPT !.insights =
          [overall_churn_rate |-> churn_percent(df.rows),
           contract_churn |->
               [c \in GroupKeys(df.rows, LAMBDA r : r.Contract) |->
                   churn_percent(Group(df.rows, LAMBDA r : r.Contract, c))],
           internet_churn |->
               [c \in GroupKeys(df.rows, LAMBDA r : r.InternetService) |->
                   churn_percent(Group(df.rows, LAMBDA r : r.InternetService, c))],
           tenure_churn |->
               [b \in GroupKeys(df.rows, tenure_bin) |->
                   churn_percent(Group(df.rows, tenure_bin, b))],
           returned |->
               IF df.rows = <<>> THEN Raised("ValueError")
               ELSE IF GroupKeys(df.rows, tenure_bin) = {} THEN Raised("KeyError")
               ELSE [k |-> "insights"]]]
    /\ UNCHANGED <<csv, df, columns, clean_passes, telecom_customers, views,
                   loader, sql, pc>>

\* the labels of the categorical columns, in the order LabelEncoder sorts
\* them
SortedLabels ==
    <<"DSL", "Fiber optic", "Month-to-month", "No", "One year", "Two year", "Yes">>

LabelRank(label) == CHOOSE j \in 1..Len(SortedLabels) : SortedLabels[j] = label

\* LabelEncoder().fit_transform(column): the position of each value among
\* the sorted distinct values of the column, from 0
fit_transform(column) ==
    LET classes == {column[i] : i \in 1..Len(column)}
    IN [i \in 1..Len(column) |->
          Cardinality({c \in classes : LabelRank(c) < LabelRank(column[i])})]

\* the categorical columns of the frame, each with its col + '_encoded'
categorical_cols ==
    [Partner |-> "Partner_encoded", Dependents |-> "Dependents_encoded",
     InternetService |-> "InternetService_encoded",
     Contract |-> "Contract_encoded"]

\* train_test_split(X, y, test_size=0.2, stratify=y) of n rows: ValueError
\* when a part would be empty, when a class has fewer than two members or
\* when a part has fewer rows than there are classes
split_raises(y) ==
    LET n == Len(y)
        n_test == (n + 4) \div 5
        n_train == n - n_test
        classes == {y[i] : i \in 1..n}
    IN \/ n = 0
       \/ n_train = 0
       \/ \E c \in classes : Cardinality({i \in 1..n : y[i] = c}) < 2
       \/ n_train < Cardinality(classes)
       \/ n_test < Cardinality(classes)

\* predictive_modeling works on df_model, a copy of self.df: the encoded
\* columns are added to the copy, the copy is split and the two models are
\* fitted (LogisticRegression needs two classes)
predictive_modeling ==
    /\ df # NotLoaded
    /\ LET df_model ==
               [i \in 1..Len(df.rows) |->
                   [e \in {categorical_cols[col] : col \in DOMAIN categorical_cols} |->
                       LET col == CHOOSE c \in DOMAIN categorical_cols :
                                      categorical_cols[c] = e
                       IN fit_transform([j \in 1..Len(df.rows) |-> df.rows[j][col]])[i]]
                       @@ df.rows[i]]
           y == [i \in 1..Len(df.rows) |->
                   IF df.rows[i].Churn = "Yes" THEN 1 ELSE 0]
       IN results' = [results EXCEPT !.models =
             [df_model |-> df_model,
              returned |->
                  IF split_raises(y) \/ Cardinality({y[i] : i \in 1..Len(y)}) < 2
                  THEN Raised("ValueError")
                  ELSE [k |-> "models"]]]
    /\ UNCHANGED <<csv, df, columns, clean_passes, telecom_customers, views,
                   loader, sql, pc>>

\* create_visualizations of the in-memory analyzer: the rates by contract
\* and by internet service, and, when customer_segmentation has added
\* customer_segment, the rate and the monthly charges lost by segment
create_visualizations ==
    /\ df # NotLoaded
    /\ LET churned_customers == SelectSeq(df.rows, Churned)
       IN results' = [results EXCEPT !.dashboard =
             [contract_churn |->
                  [c \in GroupKeys(df.rows, LAMBDA r : r.Contract) |->
                      churn_percent(Group(df.rows, LAMBDA r : r.Contract, c))],
              internet_churn |->
                  [c \in GroupKeys(df.rows, LAMBDA r : r.InternetService) |->
                      churn_percent(Group(df.rows, LAMBDA r : r.InternetService, c))],
              segment_churn |->
                  IF "customer_segment" \in columns
                  THEN [c \in GroupKeys(df.rows, LAMBDA r : r.customer_segment) |->
                          churn_percent(Group(df.rows,
                                              LAMBDA r : r.customer_segment, c))]
                  ELSE None,
              revenue_by_segment |->
                  IF "customer_segment" \in columns
                  THEN [c \in GroupKeys(churned_customers,
                                        LAMBDA r : r.customer_segment) |->
                          ColumnSum(Group(churned_customers,
                                          LAMBDA r : r.customer_segment, c),
                                    LAMBDA r : Mills(r.MonthlyCharges))]
                  ELSE None]]
    /\ UNCHANGED <<csv, df, columns, clean_passes, telecom_customers, views,
                   loader, sql, pc>>

----------------------------------------------------------------------------
(* SQL expressions shared by the loader's and the analyzer's queries.      *)
(* A nullable result is Num(v) or NULL; counts are plain numbers.          *)

Num(v) == [k |-> "num", v |-> v]

\* SUM(CASE WHEN "Churn" = 'Yes' THEN 1 ELSE 0 END): NULL over no rows
sum_churned(rows) == IF rows = <<>> THEN NULL ELSE Num(CountIf(rows, Churned))

\* SUM(expr) over rows, expr in mills: NULL over no rows
sql_sum(rows, Value(_)) ==
    IF rows = <<>> THEN NULL ELSE Num(ColumnSum(rows, Value))

\* ROUND((<sum> * 100.0 / COUNT(*))::numeric, 2) in hundredths of a percent.
\* The operators are strict: NULL * 100.0 / 0 is NULL, and a number divided
\* by zero is the error division_by_zero.
churn_rate_percent_floor(churned, count) ==
    IF churned = NULL THEN NULL
    ELSE IF count = 0 THEN Raised("division_by_zero")
    ELSE Num((churned.v * 10000) \div count)

churn_rate_percent(churned, count) ==
    IF churned = NULL THEN NULL
    ELSE IF count = 0 THEN Raised("division_by_zero")
    ELSE Num(RoundHalfAway(churned.v * 10000, count))

\* ROUND(AVG(expr)::numeric, 2) over a group (never empty), expr in mills
avg_round2(rows, Value(_)) ==
    RoundHalfAway(ColumnSum(rows, Value), Len(rows) * 10) * 10

\* ROUND(AVG(tenure)::numeric, 1), in tenths of a month
avg_tenure_round1(rows) ==
    RoundHalfAway(ColumnSum(rows, LAMBDA r : Mills(r.tenure)), Len(rows) * 100)

\* SQL GROUP BY: one group per key value among the rows
SqlGroupKeys(rows, Key(_)) == {Key(rows[i]) : i \in 1..Len(rows)}

\* the columns COUNT(*), churned_customers, churn_rate_percent of a group
churn_columns(g) ==
    [customer_count |-> Len(g),
     churned_customers |-> sum_churned(g).v,
     churn_rate_percent |-> churn_rate_percent(sum_churned(g), Len(g))]

\* SELECT "Contract", COUNT(*), <churned>, <rate>, ROUND(AVG("MonthlyCharges"))
\* FROM telecom_customers GROUP BY "Contract"
churn_by_contract(rows) ==
    [c \in SqlGroupKeys(rows, LAMBDA r : r.Contract) |->
        LET g == Group(rows, LAMBDA r : r.Contract, c)
        IN churn_columns(g) @@
           [avg_monthly_charges |-> avg_round2(g, LAMBDA r : Mills(r.MonthlyCharges))]]

\* SELECT COUNT(*), <churned>, <rate> FROM telecom_customers
churn_overall(rows) ==
    [total_customers |-> Len(rows),
     churned_customers |-> sum_churned(rows),
     churn_rate_percent |-> churn_rate_percent(sum_churned(rows), Len(rows))]

\* f"{value:,}" on a query result: None has no such format (TypeError)
CanFormat(x) == x # NULL

----------------------------------------------------------------------------
(* TelecomPostgresLoader.                                                  *)

\* the rows SELECT * FROM customer_segments returns
customer_segments_rows(rows) ==
    [i \in 1..Len(rows) |->
        [customer_segment |-> customer_segment_case(rows[i]),
         churn_risk |-> churn_risk_case(rows[i]),
         clv |-> clv_case(rows[i])] @@ rows[i]]

age_group(row) == IF row.SeniorCitizen = IntCell(1) THEN "Senior" ELSE "Non-Senior"

household_type(row) ==
    IF row.Partner = "Yes" /\ row.Dependents = "Yes" THEN "Family"
    ELSE IF row.Partner = "Yes" \/ row.Dependents = "Yes" THEN "Couple/Single Parent"
    ELSE "Single"

churn_summary_key(row) ==
    <<row.Contract, row.InternetService, age_group(row), household_type(row)>>

\* the rows SELECT * FROM churn_summary returns, by group key
churn_summary_rows(rows) ==
    [key \in SqlGroupKeys(rows, churn_summary_key) |->
        LET g == Group(rows, churn_summary_key, key)
        IN churn_columns(g) @@
           [avg_monthly_charges |-> avg_round2(g, LAMBDA r : Mills(r.MonthlyCharges)),
            avg_tenure_months |-> avg_tenure_round1(g)]]

\* the views as state: what a SELECT on each returns now
customer_segments ==
    IF "customer_segments" \in views /\ telecom_customers # NoTable
    THEN Table(customer_segments_rows(telecom_customers.rows)) ELSE NoTable

churn_summary ==
    IF "churn_summary" \in views /\ telecom_customers # NoTable
    THEN Table(churn_summary_rows(telecom_customers.rows)) ELSE NoTable

LoaderGoto_on(ok, next) == pc' = [pc EXCEPT !.loader = next]

\* main() moves to the next step when a step returns True and to the
\* finally clause (close_connection) when it returns False
LoaderGoto(ok, next) ==
    pc' = [pc EXCEPT !.loader = IF ok THEN next ELSE "close_connection"]

\* The connections of a run: those open now, the largest number open at
\* one moment, the connections opened so far in their order, how often
\* self.connection was closed, and the connections queries were issued over.
NoConnections ==
    [open |-> {}, peak |-> 0, opened |-> <<>>, closes |-> 0, queried |-> {}]

OpenConn(log, name) ==
    [log EXCEPT !.open = @ \cup {name},
                !.opened = Append(@, name),
                !.peak = IF Cardinality(log.open \cup {name}) > @
                         THEN Cardinality(log.open \cup {name}) ELSE @]

QueryOver(log, name) == [log EXCEPT !.queried = @ \cup {name}]

CloseConn(log, name) == [log EXCEPT !.open = @ \ {name}]

\* with engine.connect() as conn: ... -- opened, used, closed on exit
WithConn(log, name) == CloseConn(QueryOver(OpenConn(log, name), name), name)

\* the loader object after __init__: no step has run, self.connection is None
LoaderFresh ==
    [database |-> NotRun, connection |-> NotRun, load |-> NotRun,
     views |-> NotRun, verify |-> NotRun, sample |-> NotRun,
     conn |-> NoConnections]

\* the analyzer object after __init__
SqlFresh ==
    [connected |-> NotRun, clv |-> NotRun, churn_overall |-> NotRun,
     churn_by_contract |-> NotRun, revenue |-> NotRun,
     revenue_by_segment |-> NotRun, pricing |-> NotRun,
     visualizations |-> NotRun, recommendations |-> NotRun, raised |-> {},
     conn |-> NoConnections]

\* main(): the loader is constructed and the try block entered
loader_main ==
    /\ pc.loader = "main"
    /\ pc' = [pc EXCEPT !.loader = "create_database"]
    /\ loader' = LoaderFresh
    /\ UNCHANGED <<csv, df, columns, results, clean_passes, telecom_customers,
                   views, sql>>

\* create_database: a psycopg2 connection to the postgres database, the
\* existence query and CREATE DATABASE, then close.  False when the server
\* cannot be reached (nothing was opened) and when a statement fails (the
\* except clause does not close the connection).
create_database ==
    /\ pc.loader = "create_database"
    /\ \E outcome \in {"ok", "connect_failed", "statement_failed"} :
         /\ LoaderGoto(outcome = "ok", "create_connection")
         /\ loader' = [loader EXCEPT
               !.database = Returned(outcome = "ok"),
               !.conn = CASE outcome = "ok" -> WithConn(@, "postgres")
                          [] outcome = "connect_failed" -> @
                          [] outcome = "statement_failed" ->
                                QueryOver(OpenConn(@, "postgres"), "postgres")]
    /\ UNCHANGED <<csv, df, columns, results, clean_passes, telecom_customers,
                   views, sql>>

\* create_connection: self.connection = self.engine.connect(); False when
\* the server cannot be reached
create_connection ==
    /\ pc.loader = "create_connection"
    /\ \E ok \in BOOLEAN :
         /\ LoaderGoto(ok, "load_data_from_csv")
         /\ loader' = [loader EXCEPT
               !.connection = Returned(ok),
               !.conn = IF ok THEN OpenConn(@, "self.connection") ELSE @]
    /\ UNCHANGED <<csv, df, columns, results, clean_passes, telecom_customers,
                   views, sql>>

\* The outcomes of the DROP statements of load_data_from_csv.  Each of the
\* two groups runs in a try whose except clause passes: both succeed, the
\* DROP TABLE raises after the views were dropped and committed, or the
\* first DROP VIEW raises, which leaves the transaction aborted so that the
\* DROP TABLE raises as well.
DropOutcomes == {"dropped", "table_kept", "nothing_dropped"}

\* to_sql(if_exists='append'): the rows go into a new table when there is
\* none and after the rows of the table that is there
to_sql_append(table, rows) ==
    IF table = NoTable THEN Table(rows) ELSE Table(table.rows \o rows)

\* load_data_from_csv: read_csv, clean_data, DROP the views and the table
\* over a connection of its own (with self.engine.connect() as conn), then
\* to_sql(if_exists='append') over a connection pandas takes from the
\* engine; an error anywhere else is caught and gives False
load_data_from_csv ==
    /\ pc.loader = "load_data_from_csv"
    /\ LET cleaned == clean_data(csv)
       IN /\ clean_passes' = <<cleaned>>
          /\ IF IsRaised(cleaned)
             THEN /\ loader' = [loader EXCEPT !.load = Returned(FALSE)]
                  /\ UNCHANGED <<telecom_customers, views>>
             ELSE /\ \E drop \in DropOutcomes :
                       /\ views' = IF drop = "nothing_dropped" THEN views ELSE {}
                       /\ telecom_customers' =
                             to_sql_append(IF drop = "dropped" THEN NoTable
                                           ELSE telecom_customers,
                                           cleaned.rows)
                  /\ loader' = [loader EXCEPT
                        !.load = Returned(TRUE),
                        !.conn = WithConn(WithConn(@, "conn"), "to_sql")]
          /\ LoaderGoto(~IsRaised(cleaned), "create_analysis_views")
    /\ UNCHANGED <<csv, df, columns, results, sql>>

\* clean_data called on the frame an earlier call returned
clean_data_again ==
    /\ clean_passes # <<>>
    /\ Len(clean_passes) < MaxCleanPasses
    /\ ~IsRaised(clean_passes[Len(clean_passes)])
    /\ clean_passes' =
           Append(clean_passes, clean_data(clean_passes[Len(clean_passes)].rows))
    /\ UNCHANGED <<csv, df, columns, results, telecom_customers, views, loader,
                   sql, pc>>

\* create_analysis_views: CREATE OR REPLACE VIEW, twice; fails when the
\* table does not exist
create_analysis_views ==
    /\ pc.loader = "create_analysis_views"
    /\ IF telecom_customers = NoTable
       THEN /\ loader' = [loader EXCEPT !.views = Returned(FALSE),
                                          !.conn = WithConn(@, "conn")]
            /\ UNCHANGED views
       ELSE /\ views' = views \cup {"customer_segments", "churn_summary"}
            /\ loader' = [loader EXCEPT !.views = Returned(TRUE),
                                          !.conn = WithConn(@, "conn")]
    /\ LoaderGoto(telecom_customers # NoTable, "verify_setup")
    /\ UNCHANGED <<csv, df, columns, results, clean_passes, telecom_customers, sql>>

\* verify_setup: the overall query, its three values printed with
\* f"{...:,}", then COUNT(*) of customer_segments
verify_setup_returns ==
    /\ telecom_customers # NoTable
    /\ CanFormat(churn_overall(telecom_customers.rows).churned_customers)
    /\ customer_segments # NoTable

verify_setup ==
    /\ pc.loader = "verify_setup"
    /\ loader' = [loader EXCEPT
          !.verify =
             [returned |-> verify_setup_returns,
              row |-> IF telecom_customers = NoTable THEN None
                      ELSE churn_overall(telecom_customers.rows)],
          !.conn = WithConn(@, "conn")]
    /\ LoaderGoto(verify_setup_returns, "run_sample_queries")
    /\ UNCHANGED <<csv, df, columns, results, clean_passes, telecom_customers,
                   views, sql>>

\* the second sample query: monthly and annual revenue lost, in mills
sample_revenue_impact(rows) ==
    [monthly_revenue_lost |->
         sql_sum(rows, LAMBDA r : IF Churned(r) THEN Mills(r.MonthlyCharges) ELSE 0),
     annual_revenue_lost |->
         sql_sum(rows, LAMBDA r : IF Churned(r) THEN Mills(r.MonthlyCharges) * 12 ELSE 0)]

\* run_sample_queries: churn by contract, then revenue impact printed with
\* f"{...:,.2f}"
run_sample_queries_returns ==
    /\ telecom_customers # NoTable
    /\ CanFormat(sample_revenue_impact(telecom_customers.rows).monthly_revenue_lost)

run_sample_queries ==
    /\ pc.loader = "run_sample_queries"
    /\ loader' = [loader EXCEPT
          !.sample =
             IF telecom_customers = NoTable
             THEN [returned |-> FALSE, churn_by_contract |-> None, revenue |-> None]
             ELSE [returned |-> run_sample_queries_returns,
                   churn_by_contract |-> Table(churn_by_contract(telecom_customers.rows)),
                   revenue |-> sample_revenue_impact(telecom_customers.rows)],
          !.conn = WithConn(@, "conn")]
    /\ pc' = [pc EXCEPT !.loader = "close_connection"]
    /\ UNCHANGED <<csv, df, columns, results, clean_passes, telecom_customers,
                   views, sql>>

\* close_connection: self.connection is closed when there is one; the
\* engine is disposed of
CloseSelf(log) ==
    IF "self.connection" \in log.open
    THEN [CloseConn(log, "self.connection") EXCEPT !.closes = @ + 1]
    ELSE log

\* finally: loader.close_connection()
loader_close_connection ==
    /\ pc.loader = "close_connection"
    /\ pc' = [pc EXCEPT !.loader = "done"]
    /\ loader' = [loader EXCEPT !.conn = CloseSelf(@)]
    /\ UNCHANGED <<csv, df, columns, results, clean_passes, telecom_customers,
                   views, sql>>

----------------------------------------------------------------------------
(* TelecomPostgresAnalyzer.  run_sql_query returns None when the query     *)
(* fails (here: the table does not exist, or the query divides by zero).   *)

\* a query whose evaluation raised gives None, like any failed query
run_sql_query(result) == IF IsRaised(result) THEN None ELSE result

\* analyze_clv: customer_clv grouped by "Contract", "InternetService"
clv_key(row) == <<row.Contract, row.InternetService>>

\* the clv column of the customer_clv CTE
customer_clv(row) ==
    IF GtN(row.TotalCharges, 0) THEN Mills(row.TotalCharges)
    ELSE charges_times_tenure(row)

clv_by_contract_service(rows) ==
    [key \in SqlGroupKeys(rows, clv_key) |->
        LET g == Group(rows, clv_key, key)
        IN churn_columns(g) @@
           [avg_clv |-> avg_round2(g, customer_clv),
            avg_monthly_charges |-> avg_round2(g, LAMBDA r : Mills(r.MonthlyCharges)),
            avg_tenure_months |-> avg_tenure_round1(g)]]

\* run_complete_analysis goes on to the next step, or on an exception to
\* its finally clause (close_connection)
AnalyzerGoto(raises, next) ==
    pc' = [pc EXCEPT !.analyzer = IF raises THEN "close_connection" ELSE next]

\* run_complete_analysis: connect() returns True, or False when the server
\* cannot be reached, and then the method returns
connect ==
    /\ pc.analyzer = "run_complete_analysis"
    /\ \E ok \in BOOLEAN :
         /\ pc' = [pc EXCEPT !.analyzer = IF ok THEN "analyze_clv" ELSE "done"]
         /\ sql' = [SqlFresh EXCEPT
               !.connected = Returned(ok),
               !.conn = IF ok THEN OpenConn(@, "self.connection") ELSE @]
    /\ UNCHANGED <<csv, df, columns, results, clean_passes, telecom_customers,
                   views, loader>>

analyze_clv ==
    /\ pc.analyzer = "analyze_clv"
    /\ AnalyzerGoto(FALSE, "analyze_churn_drivers")
    /\ sql' = [sql EXCEPT
                 !.clv =
                    IF telecom_customers = NoTable THEN None
                    ELSE Table(clv_by_contract_service(telecom_customers.rows)),
                 !.conn = QueryOver(@, "self.connection")]
    /\ UNCHANGED <<csv, df, columns, results, clean_passes, telecom_customers,
                   views, loader>>

\* analyze_churn_drivers: the overall query and its printout, then churn by
\* contract.  Over an empty table churned_customers is NULL; whether pandas
\* hands it to the f-string as None (TypeError, the method ends there) or
\* as NaN (printed) depends on how read_sql types the column, so both are
\* allowed.
analyze_churn_drivers ==
    /\ pc.analyzer = "analyze_churn_drivers"
    /\ \E none_raises \in BOOLEAN :
         LET overall == IF telecom_customers = NoTable THEN None
                        ELSE churn_overall(telecom_customers.rows)
             raises == /\ overall # None
                       /\ ~CanFormat(overall.churned_customers)
                       /\ none_raises
         IN /\ AnalyzerGoto(raises, "analyze_revenue_impact")
            /\ sql' = [sql EXCEPT
                      !.churn_overall = overall,
                      !.churn_by_contract =
                          IF raises THEN @
                          ELSE IF telecom_customers = NoTable THEN None
                          ELSE Table(churn_by_contract(telecom_customers.rows)),
                      !.raised = IF raises THEN @ \cup {"analyze_churn_drivers"}
                                 ELSE @,
                      !.conn = QueryOver(@, "self.connection")]
    /\ UNCHANGED <<csv, df, columns, results, clean_passes, telecom_customers,
                   views, loader>>

\* the first query of analyze_revenue_impact, money in mills
revenue_lost(rows) ==
    [monthly_revenue_lost |->
         sql_sum(rows, LAMBDA r : IF Churned(r) THEN Mills(r.MonthlyCharges) ELSE 0),
     annual_revenue_lost |->
         sql_sum(rows, LAMBDA r : IF Churned(r) THEN Mills(r.MonthlyCharges) * 12 ELSE 0),
     lifetime_value_lost |->
         sql_sum(rows, LAMBDA r : IF Churned(r) THEN charges_times_tenure(r) ELSE 0)]

\* ROUND(x::numeric, 2) of mills
SqlRound2(total) == RoundHalfAway(total, 10) * 10

\* the churn_revenue CTE: churned rows by "Contract", "InternetService"
churn_revenue(rows) ==
    LET churned == SelectSeq(rows, Churned)
    IN [key \in SqlGroupKeys(churned, clv_key) |->
          LET g == Group(churned, clv_key, key)
              total == ColumnSum(g, LAMBDA r : Mills(r.MonthlyCharges))
          IN [churned_customers |-> Len(g),
              avg_monthly_charges |-> avg_round2(g, LAMBDA r : Mills(r.MonthlyCharges)),
              monthly_revenue_lost |-> SqlRound2(total),
              annual_revenue_lost |-> SqlRound2(total * 12)]]

RECURSIVE SumAnnual(_, _)
SumAnnual(cte, keys) ==
    IF keys = {} THEN 0
    ELSE LET key == CHOOSE x \in keys : TRUE
         IN cte[key].annual_revenue_lost + SumAnnual(cte, keys \ {key})

\* ROUND((part / total * 100)::numeric, 2) in hundredths of a percent, by
\* long division (part <= total)
share_percent(part, total) ==
    LET q1 == (part * 100) \div total
        r1 == (part * 100) % total
        q2 == (r1 * 100) \div total
        r2 == (r1 * 100) % total
    IN q1 * 100 + q2 + (IF 2 * r2 >= total THEN 1 ELSE 0)

\* the second query: each CTE row with its share of
\* SUM(annual_revenue_lost) OVER (), in hundredths of a percent; dividing by
\* a zero total is the error division_by_zero
revenue_impact_by_segment(rows) ==
    LET cte == churn_revenue(rows)
        total == SumAnnual(cte, DOMAIN cte)
    IN IF DOMAIN cte # {} /\ total = 0 THEN Raised("division_by_zero")
       ELSE Table([key \in DOMAIN cte |->
                     cte[key] @@
                     [revenue_loss_percentage |->
                        share_percent(cte[key].annual_revenue_lost, total)]])

analyze_revenue_impact ==
    /\ pc.analyzer = "analyze_revenue_impact"
    /\ \E none_raises \in BOOLEAN :
         LET result == IF telecom_customers = NoTable THEN None
                       ELSE revenue_lost(telecom_customers.rows)
             raises == /\ result # None
                       /\ ~CanFormat(result.monthly_revenue_lost)
                       /\ none_raises
         IN /\ AnalyzerGoto(raises, "analyze_pricing_optimization")
            /\ sql' = [sql EXCEPT
                      !.revenue = result,
                      !.revenue_by_segment =
                          IF raises THEN @
                          ELSE IF telecom_customers = NoTable THEN None
                          ELSE run_sql_query(
                                   revenue_impact_by_segment(telecom_customers.rows)),
                      !.raised = IF raises THEN @ \cup {"analyze_revenue_impact"}
                                 ELSE @,
                      !.conn = QueryOver(@, "self.connection")]
    /\ UNCHANGED <<csv, df, columns, results, clean_passes, telecom_customers,
                   views, loader>>

\* analyze_pricing_optimization: churn by price segment
price_segment(row) ==
    IF LeN(row.MonthlyCharges, 30) THEN "Low Price ($0-30)"
    ELSE IF LeN(row.MonthlyCharges, 60) THEN "Medium Price ($31-60)"
    ELSE IF LeN(row.MonthlyCharges, 90) THEN "High Price ($61-90)"
    ELSE "Premium Price ($90+)"

churn_by_price_segment(rows) ==
    [seg \in SqlGroupKeys(rows, price_segment) |->
        LET g == Group(rows, price_segment, seg)
        IN churn_columns(g) @@
           [avg_monthly_charges |-> avg_round2(g, LAMBDA r : Mills(r.MonthlyCharges))]]

analyze_pricing_optimization ==
    /\ pc.analyzer = "analyze_pricing_optimization"
    /\ AnalyzerGoto(FALSE, "create_visualizations")
    /\ sql' = [sql EXCEPT
                 !.pricing =
                    IF telecom_customers = NoTable THEN None
                    ELSE Table(churn_by_price_segment(telecom_customers.rows)),
                 !.conn = QueryOver(@, "self.connection")]
    /\ UNCHANGED <<csv, df, columns, results, clean_passes, telecom_customers,
                   views, loader>>

\* create_visualizations of the SQL analyzer: three queries and a figure,
\* inside its own try/except
analyzer_create_visualizations ==
    /\ pc.analyzer = "create_visualizations"
    /\ AnalyzerGoto(FALSE, "generate_recommendations")
    /\ sql' = [sql EXCEPT !.visualizations = Returned(telecom_customers # NoTable),
                          !.conn = QueryOver(@, "self.connection")]
    /\ UNCHANGED <<csv, df, columns, results, clean_passes, telecom_customers,
                   views, loader>>

\* generate_recommendations prints a fixed list
generate_recommendations ==
    /\ pc.analyzer = "generate_recommendations"
    /\ AnalyzerGoto(FALSE, "close_connection")
    /\ sql' = [sql EXCEPT !.recommendations = Returned(TRUE)]
    /\ UNCHANGED <<csv, df, columns, results, clean_passes, telecom_customers,
                   views, loader>>

\* finally: self.close_connection()
analyzer_close_connection ==
    /\ pc.analyzer = "close_connection"
    /\ pc' = [pc EXCEPT !.analyzer = "done"]
    /\ sql' = [sql EXCEPT !.conn = CloseSelf(@)]
    /\ UNCHANGED <<csv, df, columns, results, clean_passes, telecom_customers,
                   views, loader>>

----------------------------------------------------------------------------
(* Initial states: the programs have not run, the database holds no table, *)
(* and the data file holds some rows.                                      *)

\* the rows of a data file: customerID is the row's position, so it is unique
WithIds(frame) == [i \in 1..Len(frame) |-> [customerID |-> i] @@ frame[i]]

\* the data files of at most n rows drawn from a set of rows
Files(rowset, n) == {WithIds(f) : f \in UNION {[1..k -> rowset] : k \in 0..n}}

InitWith(files) ==
    /\ csv \in files
    /\ df = NotLoaded
    /\ columns = {}
    /\ results = [segmentation |-> NotRun, revenue_impact |-> NotRun,
                  cohort |-> NotRun, insights |-> NotRun,
                  models |-> NotRun, dashboard |-> NotRun]
    /\ clean_passes = <<>>
    /\ telecom_customers = NoTable
    /\ views = {}
    /\ loader = LoaderFresh
    /\ sql = SqlFresh
    /\ pc = [loader |-> "main", analyzer |-> "run_complete_analysis"]

\* a row as read_csv types it: SeniorCitizen and tenure int64, MonthlyCharges
\* float64 (mills), TotalCharges text
Row(contract, internet, senior, partner, dependents, tenure, monthly, total, churn) ==
    [Contract |-> contract, InternetService |-> internet,
     SeniorCitizen |-> IntCell(senior), Partner |-> partner,
     Dependents |-> dependents, tenure |-> IntCell(tenure),
     MonthlyCharges |-> FltCell(monthly), TotalCharges |-> total, Churn |-> churn]

\* the loader's run and the SQL analyzer's run, step by step
LoaderNext ==
    \/ loader_main
    \/ create_database
    \/ create_connection
    \/ load_data_from_csv
    \/ create_analysis_views
    \/ verify_setup
    \/ run_sample_queries
    \/ loader_close_connection

AnalyzerNext ==
    \/ connect
    \/ analyze_clv
    \/ analyze_churn_drivers
    \/ analyze_revenue_impact
    \/ analyze_pricing_optimization
    \/ analyzer_create_visualizations
    \/ generate_recommendations
    \/ analyzer_close_connection

\* the methods of the in-memory analyzer, in any order
MemoryNext ==
    \/ TelecomChurnAnalyzer_init
    \/ cohort_analysis
    \/ customer_segmentation
    \/ revenue_impact_analysis
    \/ generate_insights_and_recommendations

----------------------------------------------------------------------------
(* Spec: the three programs over small data files.                         *)

MaxRows == 2

Contracts == {"Month-to-month", "One year", "Two year"}

SmallRows ==
    {Row(c, "DSL", 0, "No", "No", t, 50000, StrCell(<<"2", "4", "0">>), ch) :
        c \in Contracts, t \in {3}, ch \in {"Yes", "No"}}

Init == InitWith(Files(SmallRows, MaxRows))

Next == MemoryNext \/ LoaderNext \/ AnalyzerNext

Spec == Init /\ [][Next]_vars

----------------------------------------------------------------------------
(* SpecSegment: the two segmenters over every contract value and the       *)
(* tenures around each threshold.                                          *)

MaxSegRows == 1

\* "Three year" stands for a contract value none of the rules names
SegContracts == Contracts \cup {"Three year"}
SegTenures == {0, 1, 5, 6, 7, 11, 12, 13, 23, 24, 25, 72}

SegRows ==
    {Row(c, "DSL", 0, "No", "No", t, 50000, StrCell(<<"5", "0">>), "No") :
        c \in SegContracts, t \in SegTenures}

InitSegment == InitWith(Files(SegRows, MaxSegRows))

NextSegment ==
    \/ TelecomChurnAnalyzer_init
    \/ customer_segmentation
    \/ loader_main
    \/ create_database
    \/ create_connection
    \/ load_data_from_csv
    \/ create_analysis_views
    \/ loader_close_connection

SpecSegment == InitSegment /\ [][NextSegment]_vars

\* the decision table of the segmenter, as the specification states it
SegmentTable(contract, tenure) ==
    CASE contract = "Month-to-month" /\ tenure < 12 -> "High Risk - New Month-to-Month"
      [] contract = "Month-to-month" /\ tenure >= 12
           -> "Medium Risk - Established Month-to-Month"
      [] contract = "One year" /\ tenure < 6 -> "Medium Risk - New Annual"
      [] contract = "Two year" -> "Low Risk - Long-term"
      [] OTHER -> "Stable - Established Annual"

Segmented == df # NotLoaded /\ "customer_segment" \in columns

\* C1: every record gets the customer_segment label of the decision table
\* (Month-to-month < 12: High Risk - New Month-to-Month; Month-to-month >= 12:
\* Medium Risk - Established Month-to-Month; One year < 6: Medium Risk - New
\* Annual; Two year: Low Risk - Long-term; anything else: Stable -
\* Established Annual), in memory and in the customer_segments view.
C1_SegmentByDecisionTable ==
    /\ Segmented =>
         \A i \in 1..Len(df.rows) :
            df.rows[i].customer_segment =
                SegmentTable(df.rows[i].Contract, df.rows[i].tenure.v)
    /\ customer_segments # NoTable =>
         \A i \in 1..Len(customer_segments.rows) :
            customer_segments.rows[i].customer_segment =
                SegmentTable(customer_segments.rows[i].Contract,
                             customer_segments.rows[i].tenure.v)

C1_Witness ==
    /\ Segmented
    /\ customer_segments # NoTable
    /\ \E i \in 1..Len(df.rows) :
          /\ df.rows[i].Contract = "One year"
          /\ df.rows[i].tenure.v = 6
          /\ df.rows[i].customer_segment = "Stable - Established Annual"
          /\ customer_segments.rows[i].customer_segment = "Stable - Established Annual"

\* the churn_risk table, as the claim states it
RiskTable(contract, tenure) ==
    IF contract = "Month-to-month" /\ tenure < 12 THEN "High Risk"
    ELSE IF \/ contract = "Month-to-month" /\ 12 <= tenure /\ tenure < 24
            \/ contract = "One year" /\ tenure < 6
    THEN "Medium Risk"
    ELSE "Low Risk"

\* C2: churn_risk is High Risk iff Month-to-month and tenure < 12, Medium
\* Risk iff Month-to-month and 12 <= tenure < 24 or One year and tenure < 6,
\* and Low Risk otherwise.
C2_ChurnRiskTable ==
    customer_segments # NoTable =>
      \A i \in 1..Len(customer_segments.rows) :
         customer_segments.rows[i].churn_risk =
             RiskTable(customer_segments.rows[i].Contract,
                       customer_segments.rows[i].tenure.v)

C2_Witness ==
    /\ customer_segments # NoTable
    /\ \E i \in 1..Len(customer_segments.rows) :
          /\ customer_segments.rows[i].Contract = "Month-to-month"
          /\ customer_segments.rows[i].tenure.v = 24
          /\ customer_segments.rows[i].churn_risk = "Low Risk"
          /\ customer_segments.rows[i].customer_segment =
                 "Medium Risk - Established Month-to-Month"

\* C3: the in-memory segmenter and the customer_segments view give every
\* customer the same customer_segment.
C3_SegmentersAgree ==
    (Segmented /\ customer_segments # NoTable) =>
      \A i \in 1..Len(df.rows) : \A j \in 1..Len(customer_segments.rows) :
         df.rows[i].customerID = customer_segments.rows[j].customerID =>
            df.rows[i].customer_segment = customer_segments.rows[j].customer_segment

C3_Witness ==
    /\ Segmented
    /\ customer_segments # NoTable
    /\ \E i \in 1..Len(df.rows) :
          /\ df.rows[i].Contract = "Two year"
          /\ df.rows[i].customerID = customer_segments.rows[i].customerID
          /\ customer_segments.rows[i].customer_segment = "Low Risk - Long-term"

----------------------------------------------------------------------------
(* SpecClean: the cleaner over total-charge texts of every shape.          *)

MaxCleanRows == 2

\* total-charge texts, each with what it denotes: a number of mills, or
\* nothing (empty, blank, not a number)
TotalChargesTexts ==
    { [text |-> <<>>,                          numeric |-> FALSE, mills |-> 0],
      [text |-> <<" ">>,                       numeric |-> FALSE, mills |-> 0],
      [text |-> <<"x">>,                       numeric |-> FALSE, mills |-> 0],
      [text |-> <<".">>,                       numeric |-> FALSE, mills |-> 0],
      [text |-> <<"1", " ", "2">>,             numeric |-> FALSE, mills |-> 0],
      [text |-> <<"1", ".", "2", ".">>,        numeric |-> FALSE, mills |-> 0],
      [text |-> <<"2", "9", ".", "8", "5">>,   numeric |-> TRUE,  mills |-> 29850],
      [text |-> <<" ", "7", " ">>,             numeric |-> TRUE,  mills |-> 7000],
      [text |-> <<"7", ".">>,                  numeric |-> TRUE,  mills |-> 7000],
      [text |-> <<".", "5">>,                  numeric |-> TRUE,  mills |-> 500],
      [text |-> <<"0">>,                       numeric |-> TRUE,  mills |-> 0] }

CleanRow(senior, tenure, monthly, total) ==
    [Contract |-> "Month-to-month", InternetService |-> "DSL",
     SeniorCitizen |-> senior, Partner |-> "No", Dependents |-> "No",
     tenure |-> tenure, MonthlyCharges |-> monthly, TotalCharges |-> total,
     Churn |-> "No"]

\* rows with each text or a missing total charge; a tenure column typed
\* float64, a MonthlyCharges column typed int64; and a row whose tenure is
\* missing, which astype(int) refuses
CleanRows ==
    {CleanRow(IntCell(0), IntCell(5), FltCell(50000), StrCell(t.text)) :
        t \in TotalChargesTexts}
    \cup {CleanRow(IntCell(0), IntCell(5), FltCell(50000), NaN),
          CleanRow(IntCell(1), FltCell(5500), IntCell(50), StrCell(<<" ">>)),
          CleanRow(IntCell(0), NaN, FltCell(50000), StrCell(<<"0">>))}

InitClean == InitWith(Files(CleanRows, MaxCleanRows))

NextClean ==
    \/ TelecomChurnAnalyzer_init
    \/ loader_main
    \/ create_database
    \/ create_connection
    \/ load_data_from_csv
    \/ clean_data_again
    \/ loader_close_connection

SpecClean == InitClean /\ [][NextClean]_vars

\* the total charge the specification gives a source cell: the number the
\* text denotes, and 0 for a text that denotes none and for a missing value
ExpectedTotal(cell) ==
    IF cell.k = "str" /\ \E t \in TotalChargesTexts : t.text = cell.s /\ t.numeric
    THEN (CHOOSE t \in TotalChargesTexts : t.text = cell.s).mills
    ELSE 0

TotalsAsExpected(rows) ==
    /\ Len(rows) = Len(csv)
    /\ \A i \in 1..Len(csv) :
          rows[i].TotalCharges = FltCell(ExpectedTotal(csv[i].TotalCharges))

\* C4: the cleaner returns as many records as it was given, each total
\* charge the parsed number or 0 when the text is not a number; clean_data
\* raises only for a column other than the total charge.
C4_CleanerCoercesToZero ==
    /\ df # NotLoaded => TotalsAsExpected(df.rows)
    /\ clean_passes # <<>> =>
          IF IsRaised(clean_passes[1])
          THEN \E i \in 1..Len(csv) :
                  \/ ~IsNumber(csv[i].tenure)
                  \/ ~IsNumber(csv[i].SeniorCitizen)
                  \/ ~IsNumber(csv[i].MonthlyCharges)
          ELSE TotalsAsExpected(clean_passes[1].rows)

C4_Witness ==
    /\ df # NotLoaded
    /\ clean_passes # <<>>
    /\ ~IsRaised(clean_passes[1])
    /\ Len(csv) = 2
    /\ csv[1].TotalCharges = StrCell(<<" ">>)
    /\ csv[2].TotalCharges = StrCell(<<"2", "9", ".", "8", "5">>)
    /\ df.rows[1].TotalCharges = FltCell(0)
    /\ clean_passes[1].rows[1].TotalCharges = FltCell(0)
    /\ clean_passes[1].rows[2].TotalCharges = FltCell(29850)

\* C5: cleaning an already cleaned frame leaves every row as the first pass
\* left it (total charge and the other converted columns).
C5_CleaningIdempotent ==
    \A n \in 2..Len(clean_passes) :
       ~IsRaised(clean_passes[n]) /\ clean_passes[n] = clean_passes[1]

C5_Witness ==
    /\ Len(clean_passes) >= 2
    /\ \E i \in 1..Len(csv) :
          /\ csv[i].TotalCharges = StrCell(<<" ">>)
          /\ csv[i].tenure = FltCell(5500)
          /\ clean_passes[2].rows[i].tenure = IntCell(5)
          /\ clean_passes[2].rows[i].TotalCharges = FltCell(0)
    /\ \E i \in 1..Len(csv) : csv[i].TotalCharges = StrCell(<<".", "5">>)

----------------------------------------------------------------------------
(* SpecPartition: customer_segmentation and revenue_impact_analysis over   *)
(* data files whose rows fall into every segment.                          *)

MaxPartitionRows == 3

PartitionRows ==
    {Row(p[1], "DSL", 0, "No", "No", p[2], p[3], StrCell(<<"2", "4", "0">>), ch) :
        p \in {<<"Month-to-month", 5, 50000>>, <<"Month-to-month", 12, 70000>>,
               <<"One year", 3, 60000>>, <<"One year", 6, 60000>>,
               <<"Two year", 40, 80000>>},
        ch \in {"Yes", "No"}}

InitPartition == InitWith(Files(PartitionRows, MaxPartitionRows))

NextPartition ==
    \/ TelecomChurnAnalyzer_init
    \/ customer_segmentation
    \/ revenue_impact_analysis

SpecPartition == InitPartition /\ [][NextPartition]_vars

RECURSIVE SumOver(_, _)
SumOver(f, keys) ==
    IF keys = {} THEN 0
    ELSE LET key == CHOOSE x \in keys : TRUE
         IN f[key] + SumOver(f, keys \ {key})

TableSum(table, keys, Column(_)) ==
    SumOver([key \in keys |-> Column(table[key])], keys)

\* C6: every record is counted in exactly one customer_segment group: the
\* groups' customer counts sum to the number of records, and the churned
\* counts of segment_analysis and of revenue_by_segment sum to the number
\* of churned records.
C6_SegmentationPartitions ==
    /\ results.segmentation # NotRun =>
          LET t == results.segmentation
          IN /\ \A i \in 1..Len(df.rows) : df.rows[i].customer_segment \in DOMAIN t
             /\ \A seg \in DOMAIN t :
                   t[seg].customer_count =
                      Cardinality({i \in 1..Len(df.rows) :
                                      df.rows[i].customer_segment = seg})
             /\ TableSum(t, DOMAIN t, LAMBDA r : r.customer_count) = Len(csv)
             /\ TableSum(t, DOMAIN t, LAMBDA r : r.churned_customers)
                   = CountIf(csv, Churned)
    /\ (results.revenue_impact # NotRun
          /\ ~IsRaised(results.revenue_impact.returned)) =>
          LET t == results.revenue_impact.returned.rows
          IN TableSum(t, DOMAIN t, LAMBDA r : r.churned_customers)
                = CountIf(csv, Churned)

C6_Witness ==
    /\ results.segmentation # NotRun
    /\ results.revenue_impact # NotRun
    /\ ~IsRaised(results.revenue_impact.returned)
    /\ Len(csv) = 3
    /\ Cardinality(DOMAIN results.segmentation) = 2
    /\ CountIf(csv, Churned) = 2
    /\ Cardinality(DOMAIN results.revenue_impact.returned.rows) = 2
    /\ \E seg \in DOMAIN results.segmentation :
          seg = "Stable - Established Annual"

----------------------------------------------------------------------------
(* SpecRate: the aggregate tables of the three programs over data files    *)
(* with up to MaxRateRows rows in one group (rates of thirds).             *)

MaxRateRows == 3

RateRows ==
    {Row(p[1], p[2], 0, "No", "No", p[3], p[4], StrCell(<<"2", "4", "0">>), ch) :
        p \in {<<"Month-to-month", "DSL", 5, 50000>>,
               <<"Two year", "Fiber optic", 40, 80000>>},
        ch \in {"Yes", "No"}}

InitRate == InitWith(Files(RateRows, MaxRateRows))

NextRate ==
    \/ TelecomChurnAnalyzer_init
    \/ customer_segmentation
    \/ LoaderNext
    \/ AnalyzerNext

SpecRate == InitRate /\ [][NextRate]_vars

\* rate (hundredths of a percent) is churned / total * 100 to 2 decimals:
\* no 2-decimal value is nearer to the quotient
RateOf(total, churned, rate) ==
    /\ total >= 1
    /\ 0 <= churned /\ churned <= total
    /\ 0 <= rate /\ rate <= 10000
    /\ LET d == rate * total - churned * 10000
       IN (IF d >= 0 THEN d ELSE -d) * 2 <= total

SqlRatesOf(t) ==
    t # None /\ t # NotRun /\ t # NoTable =>
       \A key \in DOMAIN t.rows :
          LET r == t.rows[key]
          IN /\ r.churn_rate_percent.k = "num"
             /\ RateOf(r.customer_count, r.churned_customers, r.churn_rate_percent.v)

\* C7: in every aggregate row (customer_segmentation, churn by contract,
\* CLV by contract and internet service, price segment, churn_summary),
\* 0 <= churned <= total and the churn rate is churned / total * 100
\* rounded to 2 decimals, within [0, 100].
C7_ChurnRateOfRow ==
    /\ results.segmentation # NotRun =>
          \A seg \in DOMAIN results.segmentation :
             LET r == results.segmentation[seg]
             IN RateOf(r.customer_count, r.churned_customers, r.churn_rate)
    /\ SqlRatesOf(sql.churn_by_contract)
    /\ SqlRatesOf(sql.clv)
    /\ SqlRatesOf(sql.pricing)
    /\ SqlRatesOf(churn_summary)
    /\ loader.sample # NotRun => SqlRatesOf(loader.sample.churn_by_contract)

\* a table with a row of 3 records, 2 of them churned, at 66.67
HasTwoThirds(t) ==
    /\ t # None /\ t # NotRun /\ t # NoTable
    /\ \E key \in DOMAIN t.rows :
          /\ t.rows[key].customer_count = 3
          /\ t.rows[key].churned_customers = 2
          /\ t.rows[key].churn_rate_percent = Num(6667)

C7_Witness ==
    /\ results.segmentation # NotRun
    /\ \E seg \in DOMAIN results.segmentation :
          /\ results.segmentation[seg].customer_count = 3
          /\ results.segmentation[seg].churned_customers = 2
          /\ results.segmentation[seg].churn_rate = 6667
    /\ HasTwoThirds(sql.churn_by_contract)
    /\ HasTwoThirds(sql.clv)
    /\ HasTwoThirds(sql.pricing)
    /\ HasTwoThirds(churn_summary)

----------------------------------------------------------------------------
(* SpecRatio: the ratios of the three programs over data files that may    *)
(* hold no rows at all.                                                    *)

MaxRatioRows == 2

RatioRows ==
    {Row(p[1], "DSL", 0, "No", "No", p[2], 50000, StrCell(<<"2", "4", "0">>), ch) :
        p \in {<<"Month-to-month", 5>>, <<"Two year", 40>>},
        ch \in {"Yes", "No"}}

InitRatio == InitWith(Files(RatioRows, MaxRatioRows))

NextRatio ==
    \/ TelecomChurnAnalyzer_init
    \/ cohort_analysis
    \/ generate_insights_and_recommendations
    \/ LoaderNext
    \/ AnalyzerNext

SpecRatio == InitRatio /\ [][NextRatio]_vars

\* the overall query gave a rate without a division error
SqlRatioGuarded(overall) ==
    overall # NotRun /\ overall # None => ~IsRaised(overall.churn_rate_percent)

\* C8: a ratio over zero records neither raises a division error nor is
\* NaN: the in-memory overall rate, the retention rate of every cohort
\* group, and the overall query of the analyzer and of verify_setup.
C8_RatioOverZeroGuarded ==
    /\ results.insights # NotRun => results.insights.overall_churn_rate # NaN
    /\ results.cohort # NotRun =>
          \A key \in DOMAIN results.cohort :
             results.cohort[key].retention_rate # NaN
    /\ SqlRatioGuarded(sql.churn_overall)
    /\ loader.verify # NotRun => SqlRatioGuarded(loader.verify.row)

----------------------------------------------------------------------------
(* SpecRevenue: the revenue figures of the in-memory and the SQL analyzer  *)
(* over the three example records and a record with a sub-cent charge.     *)

MaxRevenueRows == 3

\* (month-to-month, 5, 50, yes), (two-year, 40, 80, no), (one-year, 3, 60,
\* yes), with total charges that differ from monthly charge * tenure
ExampleRows ==
    <<Row("Month-to-month", "DSL", 0, "No", "No", 5, 50000,
          StrCell(<<"2", "4", "0">>), "Yes"),
      Row("Two year", "Fiber optic", 0, "No", "No", 40, 80000,
          StrCell(<<"3", "1", "0", "0">>), "No"),
      Row("One year", "DSL", 0, "No", "No", 3, 60000,
          StrCell(<<" ">>), "Yes")>>

\* a churned record charged 0.004 a month
SubCentRow ==
    Row("Month-to-month", "DSL", 0, "No", "No", 5, 4,
        StrCell(<<"0", ".", "0", "2">>), "Yes")

RevenueRows == {ExampleRows[i] : i \in 1..Len(ExampleRows)} \cup {SubCentRow}

InitRevenue == InitWith(Files(RevenueRows, MaxRevenueRows))

NextRevenue ==
    \/ TelecomChurnAnalyzer_init
    \/ customer_segmentation
    \/ revenue_impact_analysis
    \/ loader_main
    \/ create_database
    \/ create_connection
    \/ load_data_from_csv
    \/ loader_close_connection
    \/ AnalyzerNext

SpecRevenue == InitRevenue /\ [][NextRevenue]_vars

\* the churned rows of the data file, and those of one segment
ChurnedRows == SelectSeq(csv, Churned)
ChurnedOf(seg) ==
    SelectSeq(csv, LAMBDA r : Churned(r) /\ create_segments(r) = seg)

MonthlySum(rows) == ColumnSum(rows, LAMBDA r : Mills(r.MonthlyCharges))

\* the revenue table of revenue_impact_analysis, when it was returned
RevenueTable ==
    IF results.revenue_impact # NotRun
          /\ ~IsRaised(results.revenue_impact.returned)
    THEN results.revenue_impact.returned.rows
    ELSE <<>>

\* the first query of analyze_revenue_impact ran over a table with rows
SqlRevenueRan ==
    sql.revenue # NotRun /\ sql.revenue # None /\ csv # <<>>

\* C9: monthly revenue lost is the sum of the churned records' monthly
\* charges and annual revenue lost is 12 times that, overall and for every
\* segment, in memory and in SQL; for the three example records the
\* figures are 110 and 1320.
C9_RevenueLost ==
    /\ results.revenue_impact # NotRun =>
          /\ results.revenue_impact.monthly_revenue_lost = MonthlySum(ChurnedRows)
          /\ results.revenue_impact.annual_revenue_lost = MonthlySum(ChurnedRows) * 12
          /\ (csv = WithIds(ExampleRows) =>
                /\ results.revenue_impact.monthly_revenue_lost = 110000
                /\ results.revenue_impact.annual_revenue_lost = 1320000)
    /\ \A seg \in DOMAIN RevenueTable :
          /\ RevenueTable[seg].monthly_revenue_lost = MonthlySum(ChurnedOf(seg))
          /\ RevenueTable[seg].annual_revenue_lost = MonthlySum(ChurnedOf(seg)) * 12
    /\ SqlRevenueRan =>
          /\ sql.revenue.monthly_revenue_lost = Num(MonthlySum(ChurnedRows))
          /\ sql.revenue.annual_revenue_lost = Num(MonthlySum(ChurnedRows) * 12)

\* the lifetime-value proxy of a cleaned record: its total charge when
\* that is > 0, monthly charge * tenure otherwise
LifetimeValueProxy(row) ==
    LET total == Mills(fillna(to_numeric(row.TotalCharges), 0))
    IN IF total > 0 THEN total
       ELSE Mills(row.MonthlyCharges) * (Mills(row.tenure) \div 1000)

\* C10: lifetime value lost is the sum of the churned records' lifetime-
\* value proxies, overall and for every segment, in memory and in SQL.
C10_LifetimeValueLost ==
    /\ results.revenue_impact # NotRun =>
          results.revenue_impact.lifetime_value_lost
             = ColumnSum(ChurnedRows, LifetimeValueProxy)
    /\ \A seg \in DOMAIN RevenueTable :
          RevenueTable[seg].lifetime_value_lost
             = ColumnSum(ChurnedOf(seg), LifetimeValueProxy)
    /\ SqlRevenueRan =>
          sql.revenue.lifetime_value_lost
             = Num(ColumnSum(ChurnedRows, LifetimeValueProxy))

----------------------------------------------------------------------------
(* SpecClv: the clv column of the customer_segments view and of            *)
(* analyze_clv over records with and without a usable total charge.        *)

MaxClvRows == 2

ClvRows ==
    {Row(p[1], p[2], 0, "No", "No", p[3], p[4], StrCell(p[5]), "Yes") :
        p \in {<<"Month-to-month", "DSL", 5, 50000, <<"2", "4", "0">> >>,
               <<"Month-to-month", "DSL", 0, 50000, <<" ">> >>,
               <<"One year", "Fiber optic", 3, 60000, <<" ">> >>,
               <<"Two year", "DSL", 40, 80000, <<"0">> >>,
               <<"Month-to-month", "Fiber optic", 5, 4, <<"0", ".", "0", "0", "5">> >>}}

InitClv == InitWith(Files(ClvRows, MaxClvRows))

NextClv ==
    \/ loader_main
    \/ create_database
    \/ create_connection
    \/ load_data_from_csv
    \/ create_analysis_views
    \/ loader_close_connection
    \/ connect
    \/ analyze_clv

SpecClv == InitClv /\ [][NextClv]_vars

\* the records of the data file in one (Contract, InternetService) group
ClvGroup(key) ==
    SelectSeq(csv, LAMBDA r : <<r.Contract, r.InternetService>> = key)

\* C11: the clv of every record of the customer_segments view is its total
\* charge when that is > 0 and monthly charge * tenure otherwise, and the
\* avg_clv of every analyze_clv group is the mean of those values to 2
\* decimals; a total charge coerced to 0 gives monthly charge * tenure.
C11_ClvIsProxy ==
    /\ customer_segments # NoTable =>
          /\ Len(customer_segments.rows) = Len(csv)
          /\ \A i \in 1..Len(csv) :
                customer_segments.rows[i].clv = LifetimeValueProxy(csv[i])
    /\ (sql.clv # NotRun /\ sql.clv # None) =>
          \A key \in DOMAIN sql.clv.rows :
             sql.clv.rows[key].avg_clv =
                RoundHalfAway(ColumnSum(ClvGroup(key), LifetimeValueProxy),
                              Len(ClvGroup(key)) * 10) * 10

C11_Witness ==
    /\ customer_segments # NoTable
    /\ sql.clv # NotRun /\ sql.clv # None
    /\ Len(csv) = 2
    /\ csv[1].TotalCharges = StrCell(<<" ">>) /\ csv[1].tenure = IntCell(3)
    /\ customer_segments.rows[1].TotalCharges = FltCell(0)
    /\ customer_segments.rows[1].clv = 180000
    /\ csv[2].TotalCharges = StrCell(<<"2", "4", "0">>)
    /\ customer_segments.rows[2].clv = 240000
    /\ sql.clv.rows[<<"One year", "Fiber optic">>].avg_clv = 180000
    /\ sql.clv.rows[<<"Month-to-month", "DSL">>].avg_clv = 240000

----------------------------------------------------------------------------
(* The share of the total annual loss, checked under SpecRevenue.          *)

\* the rows of the SQL revenue-impact-by-segment result, when there is one
SqlRevenueTable ==
    IF sql.revenue_by_segment # NotRun /\ sql.revenue_by_segment # None
    THEN sql.revenue_by_segment.rows
    ELSE <<>>

\* row key of table t carries its share of the table's total annual loss,
\* in hundredths of a percent
CarriesShare(t, key) ==
    /\ "revenue_loss_percentage" \in DOMAIN t[key]
    /\ SumAnnual(t, DOMAIN t) > 0
    /\ t[key].revenue_loss_percentage =
          share_percent(t[key].annual_revenue_lost, SumAnnual(t, DOMAIN t))

\* C12: every per-segment revenue-loss row, of revenue_impact_analysis and
\* of the SQL revenue impact by segment, carries the segment's annual
\* revenue lost as a percentage of the total annual revenue lost.
C12_ShareOfAnnualLoss ==
    /\ \A seg \in DOMAIN RevenueTable : CarriesShare(RevenueTable, seg)
    /\ \A key \in DOMAIN SqlRevenueTable : CarriesShare(SqlRevenueTable, key)

\* the churned records of the data file in one (Contract, InternetService)
\* group, and 12 times the sum of their monthly charges, unrounded
ChurnedIn(key) ==
    SelectSeq(csv, LAMBDA r : Churned(r) /\ <<r.Contract, r.InternetService>> = key)

UnroundedAnnual(rows) == MonthlySum(rows) * 12

\* C13: currency figures are rounded only when presented: for every
\* segment the annual revenue lost is 12 times the unrounded sum of the
\* monthly charges (shown to 2 decimals in the SQL result), and the share
\* of the total annual loss is computed from the unrounded annual figures.
C13_RoundedOnlyAtPresentation ==
    /\ \A seg \in DOMAIN RevenueTable :
          RevenueTable[seg].annual_revenue_lost = UnroundedAnnual(ChurnedOf(seg))
    /\ \A key \in DOMAIN SqlRevenueTable :
          /\ SqlRevenueTable[key].annual_revenue_lost
                = SqlRound2(UnroundedAnnual(ChurnedIn(key)))
          /\ SqlRevenueTable[key].revenue_loss_percentage
                = share_percent(UnroundedAnnual(ChurnedIn(key)),
                                UnroundedAnnual(ChurnedRows))

----------------------------------------------------------------------------
(* SpecTie: churn rates over one group of up to MaxTieRows records, enough *)
(* for a rate to fall exactly between two 2-decimal values.                *)

MaxTieRows == 32

\* n month-to-month records, the first c of them churned
TieFile(n, c) ==
    WithIds([i \in 1..n |->
        Row("Month-to-month", "DSL", 0, "No", "No", 5, 50000,
            StrCell(<<"2", "5", "0">>), IF i <= c THEN "Yes" ELSE "No")])

InitTie == InitWith({TieFile(n, c) : n \in 0..MaxTieRows, c \in 0..MaxTieRows})

NextTie ==
    \/ TelecomChurnAnalyzer_init
    \/ customer_segmentation
    \/ loader_main
    \/ create_database
    \/ create_connection
    \/ load_data_from_csv
    \/ loader_close_connection
    \/ connect
    \/ analyze_clv
    \/ analyze_churn_drivers
    \/ analyzer_close_connection

SpecTie == InitTie /\ [][NextTie]_vars

\* C14: the in-memory path and the SQL path both round the churn rate half
\* away from zero at 2 decimals, so they report the same percentage for
\* the same counts, exact ties included.
C14_RatesRoundedHalfAway ==
    /\ results.segmentation # NotRun =>
          \A seg \in DOMAIN results.segmentation :
             LET r == results.segmentation[seg]
             IN r.churn_rate = RoundHalfAway(r.churned_customers * 10000,
                                             r.customer_count)
    /\ (sql.churn_by_contract # NotRun /\ sql.churn_by_contract # None) =>
          \A key \in DOMAIN sql.churn_by_contract.rows :
             LET r == sql.churn_by_contract.rows[key]
             IN r.churn_rate_percent = Num(RoundHalfAway(r.churned_customers * 10000,
                                                         r.customer_count))
    /\ (results.segmentation # NotRun /\ sql.churn_by_contract # NotRun
          /\ sql.churn_by_contract # None) =>
          \A seg \in DOMAIN results.segmentation :
             \A key \in DOMAIN sql.churn_by_contract.rows :
                Num(results.segmentation[seg].churn_rate)
                   = sql.churn_by_contract.rows[key].churn_rate_percent

----------------------------------------------------------------------------
(* SpecRun: whole runs of the loader and of the SQL analyzer, with every   *)
(* outcome of the connection attempts.                                     *)

MaxRunRows == 1

InitRun == InitWith(Files(RatioRows, MaxRunRows))

NextRun == LoaderNext \/ AnalyzerNext

SpecRun == InitRun /\ [][NextRun]_vars

\* no loader step after create_database has run
NoLoaderStepAfterDatabase ==
    /\ loader.load = NotRun /\ loader.views = NotRun
    /\ loader.verify = NotRun /\ loader.sample = NotRun
    /\ telecom_customers = NoTable /\ views = {}
    /\ loader.conn.queried \subseteq {"postgres"}
    /\ pc.loader \in {"close_connection", "done"}

\* no analyzer step has run
NoAnalyzerStep ==
    /\ sql.clv = NotRun /\ sql.churn_overall = NotRun
    /\ sql.churn_by_contract = NotRun /\ sql.revenue = NotRun
    /\ sql.revenue_by_segment = NotRun /\ sql.pricing = NotRun
    /\ sql.visualizations = NotRun /\ sql.recommendations = NotRun
    /\ sql.conn.queried = {}

\* C15: connect, create_database and create_connection return True or
\* False; after False the run performs no query, load or analysis step and
\* goes to its end (the loader through its finally clause).
C15_ConnectFailureStopsRun ==
    /\ loader.database \in {NotRun, Returned(TRUE), Returned(FALSE)}
    /\ loader.connection \in {NotRun, Returned(TRUE), Returned(FALSE)}
    /\ sql.connected \in {NotRun, Returned(TRUE), Returned(FALSE)}
    /\ loader.database = Returned(FALSE) =>
          loader.connection = NotRun /\ NoLoaderStepAfterDatabase
    /\ loader.connection = Returned(FALSE) => NoLoaderStepAfterDatabase
    /\ sql.connected = Returned(FALSE) =>
          pc.analyzer = "done" /\ NoAnalyzerStep
    /\ loader.database = Returned(TRUE) => pc.loader # "create_database"
    /\ sql.connected = Returned(TRUE) => pc.analyzer # "run_complete_analysis"

C15_Witness ==
    /\ loader.database = Returned(TRUE)
    /\ loader.connection = Returned(FALSE)
    /\ pc.loader = "done"
    /\ sql.connected = Returned(FALSE)
    /\ pc.analyzer = "done"
    /\ csv # <<>>

\* the results of the analyzer's steps, in the order of the steps
StepResults ==
    <<sql.clv, sql.churn_by_contract, sql.revenue_by_segment, sql.pricing,
      sql.visualizations, sql.recommendations>>

\* C16: in an analyzer run whose connect succeeded, a failing query gives
\* None inside run_sql_query and nothing escapes a step, so the six steps
\* all run, in their order, before the run ends.
C16_AllStepsRun ==
    sql.connected = Returned(TRUE) =>
       /\ sql.raised = {}
       /\ \A i \in 1..Len(StepResults) : ~IsRaised(StepResults[i])
       /\ \A i \in 2..Len(StepResults) :
             StepResults[i] # NotRun => StepResults[i - 1] # NotRun
       /\ pc.analyzer \in {"close_connection", "done"} =>
             \A i \in 1..Len(StepResults) : StepResults[i] # NotRun

\* the steps of each run that issue queries over the run's connection
LoaderQuerySteps ==
    {"load_data_from_csv", "create_analysis_views", "verify_setup",
     "run_sample_queries"}

AnalyzerQuerySteps ==
    {"analyze_clv", "analyze_churn_drivers", "analyze_revenue_impact",
     "analyze_pricing_optimization", "create_visualizations"}

\* C17: in a run at most one connection is open at any moment, every query
\* goes over it, and it is open during every step that queries.  (The
\* connection create_database makes to the postgres database, before the
\* loader's own exists, is not held against the loader here.)
C17_SingleConnection ==
    /\ loader.conn.peak <= 1
    /\ sql.conn.peak <= 1
    /\ loader.conn.queried \subseteq {"postgres", "self.connection"}
    /\ sql.conn.queried \subseteq {"self.connection"}
    /\ pc.loader \in LoaderQuerySteps => loader.conn.open = {"self.connection"}
    /\ pc.analyzer \in AnalyzerQuerySteps => sql.conn.open = {"self.connection"}

\* Each program is one sequential run: a run that can take its next step
\* takes it.
SpecRunFair ==
    InitRun /\ [][NextRun]_vars /\ WF_vars(LoaderNext) /\ WF_vars(AnalyzerNext)

\* the connection of a run was opened at most once, and closed at most
\* once (not counting create_database's connection to the postgres
\* database, closed before the loader's own is opened)
OpenedOnce(log) ==
    /\ Len(SelectSeq(log.opened, LAMBDA name : name # "postgres")) <= 1
    /\ log.closes <= 1

\* C18: in every run the connection is opened at most once; once opened
\* it is eventually closed, exactly once, when the run ends; and no query
\* is issued after the close.
C18_OpenedOnceClosedOnce ==
    /\ [](OpenedOnce(loader.conn) /\ OpenedOnce(sql.conn))
    /\ ("self.connection" \in loader.conn.open) ~>
          (pc.loader = "done" /\ loader.conn.open = {} /\ loader.conn.closes = 1)
    /\ ("self.connection" \in sql.conn.open) ~>
          (pc.analyzer = "done" /\ sql.conn.open = {} /\ sql.conn.closes = 1)
    /\ [][/\ loader.conn.closes = 1 => loader'.conn.queried = loader.conn.queried
          /\ sql.conn.closes = 1 => sql'.conn.queried = sql.conn.queried]_vars

\* the results of the loader's steps, in the order main() calls them
LoaderSteps ==
    <<"database", "connection", "load", "views", "verify", "sample">>

\* C19: in the loader's main no step is attempted a second time, and a
\* step that failed ends only itself: the run goes on to the steps after
\* it, so a run in which verify_setup was attempted has also attempted
\* run_sample_queries by the time it ends.
C19_FailedStepIsTerminalForItself ==
    /\ [][\A i \in 1..Len(LoaderSteps) :
            loader[LoaderSteps[i]] # NotRun =>
               loader'[LoaderSteps[i]] = loader[LoaderSteps[i]]]_vars
    /\ [](pc.loader = "done" /\ loader.verify # NotRun => loader.sample # NotRun)

----------------------------------------------------------------------------
(* SpecFrame: the six methods of the in-memory analyzer, in any order and  *)
(* any number of times, over data files with blank and numeric totals.     *)

MaxFrameRows == 2

FrameRows ==
    {Row(p[1], p[2], 0, "No", "Yes", p[3], 50000, p[4], ch) :
        p \in {<<"Month-to-month", "DSL", 5, StrCell(<<"2", "4", "0">>)>>,
               <<"Two year", "Fiber optic", 0, StrCell(<<" ">>)>>,
               <<"Two year", "DSL", 72, StrCell(<<"3", "6", "0", "0">>)>>},
        ch \in {"Yes", "No"}}

InitFrame == InitWith(Files(FrameRows, MaxFrameRows))

NextFrame ==
    \/ MemoryNext
    \/ predictive_modeling
    \/ create_visualizations

SpecFrame == InitFrame /\ [][NextFrame]_vars

\* the fields of a record of the data file
SourceFields ==
    {"customerID", "Contract", "InternetService", "SeniorCitizen", "Partner",
     "Dependents", "tenure", "MonthlyCharges", "TotalCharges", "Churn"}

\* the fields the methods derive
DerivedFields == {"cohort_month", "cohort_group", "customer_segment"}

\* C20: whatever in-memory methods have run on the loaded data set, it has
\* the records it was loaded with, every source field of every record has
\* its loaded value, and the only other fields are derived ones.
C20_FramePreserved ==
    df # NotLoaded =>
       /\ Len(df.rows) = Len(csv)
       /\ \A i \in 1..Len(df.rows) :
             /\ \A f \in SourceFields : df.rows[i][f] = load_data_frame(csv)[i][f]
             /\ SourceFields \subseteq DOMAIN df.rows[i]
             /\ DOMAIN df.rows[i] \ SourceFields \subseteq DerivedFields
             /\ DOMAIN df.rows[i] \ SourceFields = columns

\* all six methods have run on a data set of two records, one of them
\* churned with a blank total
C20_Witness ==
    /\ df # NotLoaded
    /\ Len(df.rows) = MaxFrameRows
    /\ \E i \in 1..Len(csv) : csv[i].Churn = "Yes" /\ csv[i].TotalCharges = StrCell(<<" ">>)
    /\ \E i \in 1..Len(csv) : csv[i].Churn = "No"
    /\ results.cohort # NotRun
    /\ results.segmentation # NotRun
    /\ results.models # NotRun
    /\ results.revenue_impact # NotRun
    /\ ~IsRaised(results.revenue_impact.returned)
    /\ results.insights # NotRun
    /\ results.dashboard # NotRun
    /\ columns = DerivedFields

----------------------------------------------------------------------------
(* The order of the loader's steps.                                        *)

\* the position of main() at which each step is called, in the order of
\* LoaderSteps
LoaderStepCalls ==
    <<"create_database", "create_connection", "load_data_from_csv",
      "create_analysis_views", "verify_setup", "run_sample_queries">>

\* the step was called and returned True
StepReturnedTrue(result) ==
    /\ result # NotRun
    /\ IF "v" \in DOMAIN result THEN result.v ELSE result.returned

\* C21: in a run of the loader's main a step is called, and has a result,
\* only when every step before it in the order create_database,
\* create_connection, load_data_from_csv, create_analysis_views,
\* verify_setup, run_sample_queries returned True in this run; so the views
\* are created and queried only after a successful load.
C21_StepOnlyAfterEarlierSucceeded ==
    /\ \A i \in 1..Len(LoaderSteps) :
          (loader[LoaderSteps[i]] # NotRun \/ pc.loader = LoaderStepCalls[i]) =>
             \A j \in 1..(i - 1) : StepReturnedTrue(loader[LoaderSteps[j]])
    /\ (views # {} \/ loader.views # NotRun \/ loader.verify # NotRun
          \/ loader.sample # NotRun) => loader.load = Returned(TRUE)

\* a run over a data file with records that went through all six steps
C21_Witness ==
    /\ pc.loader = "done"
    /\ \A i \in 1..Len(LoaderSteps) : StepReturnedTrue(loader[LoaderSteps[i]])
    /\ views = {"customer_segments", "churn_summary"}
    /\ csv # <<>>

----------------------------------------------------------------------------
(* SpecLoad: the loader run again and again over the same data file.       *)

MaxLoadRows == 1

\* the loader is not started again once the table holds this many rows
MaxTableRows == 3

InitLoad == InitWith(Files(RatioRows, MaxLoadRows))

\* the setup script started again after a run has ended
loader_main_again ==
    /\ pc.loader = "done"
    /\ telecom_customers # NoTable => Len(telecom_customers.rows) < MaxTableRows
    /\ pc' = [pc EXCEPT !.loader = "main"]
    /\ UNCHANGED <<csv, df, columns, results, clean_passes, telecom_customers,
                   views, loader, sql>>

NextLoad ==
    \/ LoaderNext
    \/ loader_main_again

SpecLoad == InitLoad /\ [][NextLoad]_vars

\* C22: whenever load_data_from_csv has returned True, telecom_customers
\* holds exactly the cleaned rows of the data file, as many as the file has
\* records and none from an earlier load, whatever the DROP statements did.
C22_LoadReplacesTable ==
    loader.load = Returned(TRUE) =>
       /\ telecom_customers # NoTable
       /\ Len(telecom_customers.rows) = Len(csv)
       /\ telecom_customers.rows = clean_data(csv).rows

----------------------------------------------------------------------------
(* The binned groupings of the in-memory analyzer.                         *)

\* C23: the binned groupings drop no record whose tenure is in 0..72: after
\* cohort_analysis every record has a cohort_group and the total_customers
\* of the cohort rows sum to the number of records, and every record lies
\* in one of the tenure bins generate_insights_and_recommendations groups
\* by, so the bins' sizes sum to the number of records.
C23_BinsDropNoRecord ==
    df # NotLoaded =>
       /\ results.cohort # NotRun =>
             /\ \A i \in 1..Len(df.rows) : df.rows[i].cohort_group \in CohortLabels
             /\ TableSum(results.cohort, DOMAIN results.cohort,
                         LAMBDA r : r.total_customers) = Len(df.rows)
       /\ results.insights # NotRun =>
             /\ \A i \in 1..Len(df.rows) : tenure_bin(df.rows[i]) # NoLabel
             /\ SumOver([b \in DOMAIN results.insights.tenure_churn |->
                            Len(Group(df.rows, tenure_bin, b))],
                        DOMAIN results.insights.tenure_churn) = Len(df.rows)

----------------------------------------------------------------------------
(* SpecPipeline: run_complete_analysis of the in-memory analyzer, or one   *)
(* call of revenue_impact_analysis on a freshly loaded analyzer.           *)

MaxPipelineRows == 6

run_order_swapped ==
    <<"cohort", "revenue_impact", "models", "segmentation", "insights", "dashboard">>

\* the results of the methods in the order run_complete_analysis calls them
run_order ==
    <<"cohort", "segmentation", "models", "revenue_impact", "insights", "dashboard">>

\* run_complete_analysis is about to call the method: every method before
\* it has returned without raising (nothing catches an exception, which
\* ends the run) and no method from it on has been called
Ready(method) ==
    LET at == CHOOSE i \in 1..Len(run_order) : run_order[i] = method
        raised(name) ==
            /\ name \in {"models", "revenue_impact", "insights"}
            /\ IsRaised(results[name].returned)
    IN /\ df # NotLoaded
       /\ \A j \in 1..(at - 1) :
             results[run_order[j]] # NotRun /\ ~raised(run_order[j])
       /\ \A j \in at..Len(run_order) : results[run_order[j]] = NotRun

NextPipeline ==
    \/ TelecomChurnAnalyzer_init
    \/ Ready("cohort") /\ cohort_analysis
    \/ Ready("segmentation") /\ customer_segmentation
    \/ Ready("models") /\ predictive_modeling
    \/ Ready("revenue_impact") /\ revenue_impact_analysis
    \/ Ready("insights") /\ generate_insights_and_recommendations
    \/ Ready("dashboard") /\ create_visualizations
    \/ /\ df # NotLoaded
       /\ \A j \in 1..Len(run_order) : results[run_order[j]] = NotRun
       /\ revenue_impact_analysis

SpecPipeline ==
    /\ InitWith({TieFile(n, c) : n \in 0..MaxPipelineRows, c \in 0..MaxPipelineRows})
    /\ [][NextPipeline]_vars

\* C24: in an execution of run_complete_analysis, revenue_impact_analysis
\* runs only after customer_segmentation has given every record a
\* customer_segment, and then returns its per-segment table; called on its
\* own before customer_segmentation it raises and returns no table.
C24_SegmentedBeforeRevenue ==
    results.revenue_impact # NotRun =>
       /\ results.cohort # NotRun =>
             /\ results.segmentation # NotRun
             /\ "customer_segment" \in columns
             /\ \A i \in 1..Len(df.rows) :
                   /\ "customer_segment" \in DOMAIN df.rows[i]
                   /\ df.rows[i].customer_segment # NoLabel
             /\ ~IsRaised(results.revenue_impact.returned)
       /\ results.segmentation = NotRun =>
             results.revenue_impact.returned = Raised("KeyError")

\* run_complete_analysis has come past revenue_impact_analysis, which
\* returned a table with a row for the segment of the churned records
C24_Witness ==
    /\ results.cohort # NotRun
    /\ results.segmentation # NotRun
    /\ results.models # NotRun
    /\ results.revenue_impact # NotRun
    /\ ~IsRaised(results.revenue_impact.returned)
    /\ DOMAIN results.revenue_impact.returned.rows # {}
    /\ Len(df.rows) = MaxPipelineRows

----------------------------------------------------------------------------
(* The two classifications of the customer_segments view, side by side.    *)

\* the risk level a customer_segment label names, 'Stable' counted as low
SegmentRiskLevel(segment) ==
    CASE segment = "High Risk - New Month-to-Month" -> "High Risk"
      [] segment = "Medium Risk - Established Month-to-Month" -> "Medium Risk"
      [] segment = "Medium Risk - New Annual" -> "Medium Risk"
      [] segment = "Low Risk - Long-term" -> "Low Risk"
      [] segment = "Stable - Established Annual" -> "Low Risk"

\* C25: in the customer_segments view a Month-to-month customer with tenure
\* of 24 or more is Medium Risk by customer_segment and Low Risk by
\* churn_risk; for every other customer the risk level customer_segment
\* names is the churn_risk; and churn_risk is High Risk exactly for the
\* segment High Risk - New Month-to-Month.
C25_RiskLevelsAgreeBelow24 ==
    customer_segments # NoTable =>
       \A i \in 1..Len(customer_segments.rows) :
          LET r == customer_segments.rows[i]
          IN /\ IF r.Contract = "Month-to-month" /\ r.tenure.v >= 24
                THEN /\ SegmentRiskLevel(r.customer_segment) = "Medium Risk"
                     /\ r.churn_risk = "Low Risk"
                ELSE SegmentRiskLevel(r.customer_segment) = r.churn_risk
             /\ r.churn_risk = "High Risk" <=>
                   r.customer_segment = "High Risk - New Month-to-Month"

\* the view holds a Month-to-month customer just below the threshold, on
\* whom the two classifications agree
C25_Witness ==
    /\ customer_segments # NoTable
    /\ \E i \in 1..Len(customer_segments.rows) :
          /\ customer_segments.rows[i].Contract = "Month-to-month"
          /\ customer_segments.rows[i].tenure.v = 23
          /\ customer_segments.rows[i].churn_risk = "Medium Risk"
          /\ customer_segments.rows[i].customer_segment =
                 "Medium Risk - Established Month-to-Month"

====
